---------------------------- MODULE Spec2Model ----------------------------
(***************************************************************************)
(* A model of katrfireport: the packaging script                           *)
(* scripts/rfi_report_script.py (main) and the statistics collectors of    *)
(* katrfireport/mkat_rfi_report.py (select-and-reduce loops, baseline      *)
(* ordering, tick placement, index page assembly).                         *)
(*                                                                         *)
(* Strings are sequences of tokens, so that concatenation, slicing and     *)
(* embedding are computed and not assumed.  Every call main() makes can    *)
(* raise: the outcome of a call into katdal, bokeh, pandas or the          *)
(* filesystem is chosen by the environment (action Raise).                 *)
(***************************************************************************)
EXTENDS Integers, Sequences, FiniteSets, TLC

VARIABLES
    pc,          \* position of the running function
    i,           \* main: loop index of `for i, val in enumerate(attributes)`
    html_files,  \* main: list of report file names
    tmp_dir,     \* filesystem: the directory output_dir + '.writing'
    output_dir,  \* filesystem: the path <output_dir>/<prefix>_<uuid>
    cwd,         \* filesystem: files of the working directory, name -> content
    rfi_stats,   \* main: the collector object of the current iteration
    exc,         \* the exception raised, NoExc when there is none
    result,      \* how main ended: Running, Returned or Raised(exception)
    bl_lens,     \* the baseline-length table read by pd.read_csv
    dataset,     \* the katdal dataset handle, with its current selection
    ret          \* what the function under study returned / has collected

vars == << pc, i, html_files, tmp_dir, output_dir, cwd, rfi_stats, exc, result,
           bl_lens, dataset, ret >>

None == "None"

(***************************************************************************)
(* Bounds of the model.                                                    *)
(***************************************************************************)
MaxBody == 2       \* longest report body, in tokens
MaxBl == 3         \* most correlation products of a drawn dataset
MaxLen == 2        \* largest baseline length of a drawn table
MaxDumps == 6      \* most time samples of a drawn dataset (make_ticks)
MaxTargets == 3    \* most scans of a drawn dataset (make_ticks)
MaxFlagged == 2    \* most flagged samples of a drawn flag cube

(***************************************************************************)
(* Sequence helpers.                                                       *)
(***************************************************************************)
Range(s) == { s[k] : k \in DOMAIN s }

SeqsUpTo(S, n) == UNION { [1..k -> S] : k \in 0..n }

EmptyFiles == << >>

\* open(name, 'w').write(content) / a rename into a directory
WriteFile(files, name, content) ==
    [ n \in (DOMAIN files) \cup {name} |-> IF n = name THEN content ELSE files[n] ]

RemoveFile(files, name) == [ n \in (DOMAIN files) \ {name} |-> files[n] ]

Absent == [ kind |-> "absent", files |-> EmptyFiles, data |-> None ]

(***************************************************************************)
(* katdal dataset: correlation products, dumps, flag cube, selection.      *)
(* An input label such as m000h is a token sequence: << "m", "0", "h" >>.  *)
(***************************************************************************)
\* label[0:-1]
StripLast(label) == SubSeq(label, 1, Len(label) - 1)

LastOf(label) == label[Len(label)]

lbl(ant, p) == << "m", ant, p >>

\* dataset.corr_products of the observation main() opens
CorrProducts ==
    << << lbl("0", "h"), lbl("0", "h") >>,
       << lbl("0", "h"), lbl("1", "h") >>,
       << lbl("0", "v"), lbl("1", "v") >>,
       << lbl("0", "h"), lbl("1", "v") >>,
       << lbl("1", "v"), lbl("2", "v") >>,
       << lbl("0", "h"), lbl("2", "h") >> >>

flags == << "data_lost", "cam", "ingest_rfi", "cal_rfi", "combined_flags" >>

pols == << "HH", "VV" >>

PolChars(pol) == IF pol = "HH" THEN << "h", "h" >> ELSE << "v", "v" >>


\* katdal.open(): every dump, channel and product kept, all flags OR'ed.
\* reset_flags: whether a select() without flags= falls back to all flags
\* (katdal is not part of this repository: both behaviours are admitted).
Open(corr_products, dumps, cube, reset_flags) ==
    [ corr_products |-> corr_products,
      dumps         |-> dumps,
      cube          |-> cube,
      time_keep     |-> 1..Len(dumps),
      corrprod_keep |-> 1..Len(corr_products),
      flags_keep    |-> "all",
      reset_flags   |-> reset_flags ]

IsCross(prod) == StripLast(prod[1]) # StripLast(prod[2])

HasPol(prod, pol) ==
    /\ LastOf(prod[1]) = PolChars(pol)[1]
    /\ LastOf(prod[2]) = PolChars(pol)[2]

\* dataset.select(scans='track', corrprods='cross', pol=pol) without reset of
\* the product dimension: the new criteria narrow the previous selection
select_cumulative(ds, kw) ==
    [ ds EXCEPT
        !.time_keep = { t \in 1..Len(ds.dumps) : ds.dumps[t] = kw.scans },
        !.corrprod_keep = { b \in ds.corrprod_keep :
                              /\ IsCross(ds.corr_products[b])
                              /\ HasPol(ds.corr_products[b], kw.pol) },
        !.flags_keep = IF "flags" \in DOMAIN kw THEN kw.flags
                       ELSE IF ds.reset_flags THEN "all" ELSE ds.flags_keep ]

\* dataset.select(scans=, corrprods='cross', pol=[, flags=]): reset='auto'
\* clears the time and product dimensions named by the keywords, then applies
\* the keywords; the dataset handle is mutated in place
select(ds, kw) ==
    [ ds EXCEPT
        !.time_keep = { t \in 1..Len(ds.dumps) : ds.dumps[t] = kw.scans },
        !.corrprod_keep = { b \in 1..Len(ds.corr_products) :
                              /\ IsCross(ds.corr_products[b])
                              /\ HasPol(ds.corr_products[b], kw.pol) },
        !.flags_keep = IF "flags" \in DOMAIN kw THEN kw.flags
                       ELSE IF ds.reset_flags THEN "all" ELSE ds.flags_keep ]

\* the if/else of make_plots around dataset.select
SelectFor(ds, flag, pol) ==
    IF flag # "combined_flags"
    THEN select(ds, [ scans |-> "track", corrprods |-> "cross",
                      flags |-> flag, pol |-> pol ])
    ELSE select(ds, [ scans |-> "track", corrprods |-> "cross", pol |-> pol ])

\* the selections of one make_plots(pol, dataset), flags k..5
RECURSIVE MakePlotsSel(_, _, _)
MakePlotsSel(ds, pol, k) ==
    IF k > Len(flags) THEN ds
    ELSE MakePlotsSel(SelectFor(ds, flags[k], pol), pol, k + 1)

\* the dataset as collect_plots leaves it
RECURSIVE CollectPlotsSel(_, _)
CollectPlotsSel(ds, p) ==
    IF p > Len(pols) THEN ds
    ELSE CollectPlotsSel(MakePlotsSel(ds, pols[p], 1), p + 1)

\* ascending list of a set of indices
RECURSIVE SortedSeq(_)
SortedSeq(S) ==
    IF S = {} THEN << >>
    ELSE LET m == CHOOSE x \in S : \A y \in S : x <= y
         IN << m >> \o SortedSeq(S \ {m})

\* dataset.corr_products under the current selection
SelectedProducts(ds) ==
    LET idx == SortedSeq(ds.corrprod_keep)
    IN [ k \in 1..Len(idx) |-> ds.corr_products[idx[k]] ]

(***************************************************************************)
(* PlotFreqBaseline.get_corrprods / get_bl_idx.                            *)
(***************************************************************************)
get_corrprods(ds) ==
    LET bl == SelectedProducts(ds)
    IN [ k \in 1..Len(bl) |-> StripLast(bl[k][1]) \o StripLast(bl[k][2]) ]

\* insert index x into the index list s, which is sorted by key a (stable)
RECURSIVE InsertIdx(_, _, _)
InsertIdx(s, x, a) ==
    IF s = << >> THEN << x >>
    ELSE IF a[s[Len(s)]] <= a[x] THEN Append(s, x)
    ELSE Append(InsertIdx(SubSeq(s, 1, Len(s) - 1), x, a), s[Len(s)])

RECURSIVE ArgsortUpTo(_, _)
ArgsortUpTo(a, n) ==
    IF n = 0 THEN << >> ELSE InsertIdx(ArgsortUpTo(a, n - 1), n - 1 + 1, a)

\* an argsort that leaves the products in dataset order
argsort_identity(a) == [ k \in 1..Len(a) |-> k ]

\* np.argsort(a): numpy sorts arrays of at most 16 elements by insertion.
\* Indices are 1-based here (numpy's k is k + 1).
argsort(a) == ArgsortUpTo(a, Len(a))

KeyError == "KeyError"

\* get_bl_idx: << bl_idx, ordered_bl >>, or KeyError when bl_lens[corrprod]
\* names a column the table does not have
get_bl_idx(ds, table) ==
    LET corrprods == get_corrprods(ds)
    IN IF \E k \in 1..Len(corrprods) : corrprods[k] \notin DOMAIN table
       THEN KeyError
       ELSE LET corrprod_bl == [ k \in 1..Len(corrprods) |-> table[corrprods[k]] ]
                bl_idx == argsort(corrprod_bl)
                ordered_bl == [ k \in 1..Len(bl_idx) |-> corrprod_bl[bl_idx[k]] ]
            IN << bl_idx, ordered_bl >>

(***************************************************************************)
(* PlotFreqTimeStats.write_metadata / create_main_html.                    *)
(***************************************************************************)
ObsParams ==
    [ description |-> "desc", sb_id_code |-> "sb", proposal_id |-> "prop",
      capture_block_id |-> "cbid" ]

write_metadata(obs_params) ==
    [ ProductType         |-> [ ProductTypeName |-> "MeerKATReductionProduct",
                                ReductionName   |-> "RFIReport" ],
      Description         |-> obs_params.description,
      ScheduleBlockIdCode |-> obs_params.sb_id_code,
      ProposalId          |-> obs_params.proposal_id,
      CaptureBlockId      |-> obs_params.capture_block_id ]

plot_types == << "Frequency-Time RFI Statistics", "Frequency-Baseline RFI Statistics" >>

MainHead == << "<!DOCTYPE html>", "<html>", "<head>", "</head>", "<body>",
               "<h1>MeerKAT RFI Report</h1>" >>

MainTail == << "</body>", "</html>" >>

H2(title) == << "<h2>", title, "</h2>" >>

FileNotFoundError == "FileNotFoundError"

\* the loop of create_main_html over other_html_files[k..], appending to content
RECURSIVE EmbedFrom(_, _, _, _)
EmbedFrom(content, other_html_files, files, k) ==
    IF k > Len(other_html_files) THEN content
    ELSE EmbedFrom(content \o H2(plot_types[k]) \o files[other_html_files[k]],
                   other_html_files, files, k + 1)

\* a create_main_html that indexes the headings from the other end
create_main_html_swapped(other_html_files, dir) ==
    IF dir.kind # "dir"
       \/ \E k \in 1..Len(other_html_files) : other_html_files[k] \notin DOMAIN dir.files
    THEN FileNotFoundError
    ELSE MainHead
         \o H2(plot_types[2]) \o dir.files[other_html_files[1]]
         \o H2(plot_types[1]) \o dir.files[other_html_files[2]]
         \o MainTail

\* the content create_main_html writes, or the error of open(html_f, "r")
create_main_html(other_html_files, dir) ==
    IF dir.kind # "dir"
       \/ \E k \in 1..Len(other_html_files) : other_html_files[k] \notin DOMAIN dir.files
    THEN FileNotFoundError
    ELSE EmbedFrom(MainHead, other_html_files, dir.files, 1) \o MainTail

(***************************************************************************)
(* main() of scripts/rfi_report_script.py.                                 *)
(***************************************************************************)
attributes == << "freq_time", "freq_baseline" >>

cbid == "cbid"

prefix == "prefix"

\* (cbid + '_' + '{}' + '_' + args.prefix + '_' + 'report.html').format(val)
FileName(val) == << cbid, "_", val, "_", prefix, "_", "report.html" >>

\* 'metadata.json' and 'index.html' (file names are token sequences)
MetadataName == << "metadata.json" >>

IndexName == << "index.html" >>

\* the report bodies bokeh may write
ReportBodies == { b \in SeqsUpTo({"x", "y"}, MaxBody) : Len(b) >= 1 }

\* baseline-length tables of the run: every key of CorrProducts, or one key short
FullTable ==
    [ key \in { StripLast(CorrProducts[k][1]) \o StripLast(CorrProducts[k][2]) :
                k \in 1..Len(CorrProducts) } |-> 1 ]

Tables ==
    {FullTable} \cup
    { [ key \in (DOMAIN FullTable) \ {gone} |-> FullTable[key] ] : gone \in DOMAIN FullTable }

ClearCube(nd, nc, np) == [ t \in 1..nd |-> [ f \in 1..nc |-> [ b \in 1..np |-> {} ] ] ]

\* statements inside the try block of the loop, lines 46-61
TrySites == { "filename", "construct", "collect_plots", "create_layout",
              "rename", "move_report" }

\* statements of main() outside any try block
BareSites == { "mkdir", "write_metadata", "move_metadata", "create_main_html",
               "move_index" }

val == attributes[i + 1]

filename == FileName(val)

Exception(type) == [ type |-> type, at |-> pc, i |-> i ]

\* no exception
NoExc == [ type |-> None, at |-> None, i |-> 0 ]

Running == [ status |-> "running", exc |-> NoExc ]

Returned == [ status |-> "ok", exc |-> NoExc ]

\* main() ended by exception e
Raised(e) == [ status |-> "raised", exc |-> e ]

\* an exception leaves the statement at pc: into the except clause inside the
\* try block, out of main() elsewhere
Throw(e) ==
    /\ exc' = e
    /\ IF pc \in TrySites
       THEN pc' = "except" /\ result' = result
       ELSE pc' = "exit" /\ result' = Raised(e)

Init ==
    /\ pc = "mkdir"
    /\ i = 0
    /\ html_files = << >>
    /\ tmp_dir = Absent
    /\ output_dir = Absent
    /\ cwd = EmptyFiles
    /\ rfi_stats = None
    /\ exc = NoExc
    /\ result = Running
    /\ bl_lens \in Tables
    /\ \E reset_flags \in BOOLEAN :
         dataset = Open(CorrProducts, << "track", "slew" >>,
                        ClearCube(2, 1, Len(CorrProducts)), reset_flags)
    /\ ret = None

\* line 42: os.mkdir(tmp_dir)
MkDir ==
    /\ pc = "mkdir"
    /\ tmp_dir' = [ kind |-> "dir", files |-> EmptyFiles, data |-> None ]
    /\ pc' = "loop"
    /\ UNCHANGED << i, html_files, output_dir, cwd, rfi_stats, exc, result,
                    bl_lens, dataset, ret >>

\* line 45: the for statement takes the next attribute or leaves the loop
ForLoop ==
    /\ pc = "loop"
    /\ pc' = IF i < Len(attributes) THEN "filename" ELSE "write_metadata"
    /\ UNCHANGED << i, html_files, tmp_dir, output_dir, cwd, rfi_stats, exc,
                    result, bl_lens, dataset, ret >>

\* lines 47-49
AppendFilename ==
    /\ pc = "filename"
    /\ html_files' = Append(html_files, filename)
    /\ pc' = "construct"
    /\ UNCHANGED << i, tmp_dir, output_dir, cwd, rfi_stats, exc, result,
                    bl_lens, dataset, ret >>

\* lines 50-53: PlotFreqTimeStats(dataset) or PlotFreqBaseline(dataset, ...),
\* whose __init__ calls get_bl_idx on the dataset as currently selected
Construct ==
    /\ pc = "construct"
    /\ IF val = "freq_time"
       THEN /\ rfi_stats' = [ class |-> "PlotFreqTimeStats" ]
            /\ pc' = "collect_plots"
            /\ UNCHANGED << exc, result >>
       ELSE IF get_bl_idx(dataset, bl_lens) = KeyError
            THEN /\ Throw(Exception(KeyError))
                 /\ UNCHANGED rfi_stats
            ELSE /\ rfi_stats' = [ class |-> "PlotFreqBaseline",
                                   ordered_bl |-> get_bl_idx(dataset, bl_lens)[2] ]
                 /\ pc' = "collect_plots"
                 /\ UNCHANGED << exc, result >>
    /\ UNCHANGED << i, html_files, tmp_dir, output_dir, cwd, bl_lens, dataset, ret >>

\* line 55: collect_plots; every make_plots iteration re-selects the dataset,
\* and PlotFreqBaseline.make_plots looks the baselines up again after its select
CollectPlots ==
    /\ pc = "collect_plots"
    /\ LET hh == SelectFor(dataset, flags[1], pols[1])
           vv == SelectFor(MakePlotsSel(dataset, pols[1], 1), flags[1], pols[2])
       IN IF rfi_stats.class = "PlotFreqBaseline" /\ get_bl_idx(hh, bl_lens) = KeyError
          THEN Throw(Exception(KeyError)) /\ dataset' = hh
          ELSE IF rfi_stats.class = "PlotFreqBaseline" /\ get_bl_idx(vv, bl_lens) = KeyError
          THEN Throw(Exception(KeyError)) /\ dataset' = vv
          ELSE /\ dataset' = CollectPlotsSel(dataset, 1)
               /\ pc' = "create_layout"
               /\ UNCHANGED << exc, result >>
    /\ UNCHANGED << i, html_files, tmp_dir, output_dir, cwd, rfi_stats, bl_lens, ret >>

\* lines 57-60: the layout is written to `filename` in the working directory
CreateLayout ==
    /\ pc = "create_layout"
    /\ \E body \in ReportBodies : cwd' = WriteFile(cwd, filename, body)
    /\ pc' = IF i = 0 THEN "rename" ELSE "move_report"
    /\ UNCHANGED << i, html_files, tmp_dir, output_dir, rfi_stats, exc, result,
                    bl_lens, dataset, ret >>

\* the first iteration goes on to shutil.move without renaming tmp_dir
RenameSkipped ==
    /\ pc = "rename"
    /\ pc' = "move_report"
    /\ UNCHANGED << i, html_files, tmp_dir, output_dir, cwd, rfi_stats, exc,
                    result, bl_lens, dataset, ret >>

\* line 60: os.rename(tmp_dir, output_dir)
Rename ==
    /\ pc = "rename"
    /\ IF tmp_dir.kind = "dir" /\ output_dir.kind = "absent"
       THEN /\ output_dir' = tmp_dir
            /\ tmp_dir' = Absent
            /\ pc' = "move_report"
            /\ UNCHANGED << exc, result >>
       ELSE /\ Throw(Exception("OSError"))
            /\ UNCHANGED << tmp_dir, output_dir >>
    /\ UNCHANGED << i, html_files, cwd, rfi_stats, bl_lens, dataset, ret >>

\* shutil.move(name, output_dir): into the directory when it is one (an error
\* if the name is taken), else a rename of the file to the path output_dir
Move(name, next, res) ==
    IF name \notin DOMAIN cwd
       \/ (output_dir.kind = "dir" /\ name \in DOMAIN output_dir.files)
    THEN /\ Throw(Exception("shutil.Error"))
         /\ UNCHANGED << cwd, output_dir >>
    ELSE /\ output_dir' =
              IF output_dir.kind = "dir"
              THEN [ output_dir EXCEPT !.files = WriteFile(@, name, cwd[name]) ]
              ELSE [ kind |-> "file", files |-> EmptyFiles, data |-> cwd[name] ]
         /\ cwd' = RemoveFile(cwd, name)
         /\ pc' = next
         /\ result' = res
         /\ exc' = exc

\* line 61, and the end of the loop body
MoveReport ==
    /\ pc = "move_report"
    /\ Move(filename, "loop", result)
    /\ i' = IF pc' = "loop" THEN i + 1 ELSE i
    /\ UNCHANGED << html_files, tmp_dir, rfi_stats, bl_lens, dataset, ret >>

\* the handler returns to the loop instead of re-raising
ExceptSwallow ==
    /\ pc = "except"
    /\ tmp_dir' = Absent
    /\ pc' = "loop"
    /\ i' = i + 1
    /\ UNCHANGED << html_files, output_dir, cwd, rfi_stats, exc, result,
                    bl_lens, dataset, ret >>

\* lines 62-65: shutil.rmtree(tmp_dir, ignore_errors=True); raise
Except ==
    /\ pc = "except"
    /\ tmp_dir' = Absent
    /\ result' = Raised(exc)
    /\ pc' = "exit"
    /\ UNCHANGED << i, html_files, output_dir, cwd, rfi_stats, exc, bl_lens,
                    dataset, ret >>

\* line 67
WriteMetadata ==
    /\ pc = "write_metadata"
    /\ cwd' = WriteFile(cwd, MetadataName, write_metadata(ObsParams))
    /\ pc' = "move_metadata"
    /\ UNCHANGED << i, html_files, tmp_dir, output_dir, rfi_stats, exc, result,
                    bl_lens, dataset, ret >>

\* line 68
MoveMetadata ==
    /\ pc = "move_metadata"
    /\ Move(MetadataName, "create_main_html", result)
    /\ UNCHANGED << i, html_files, tmp_dir, rfi_stats, bl_lens, dataset, ret >>

\* line 70
CreateMainHtml ==
    /\ pc = "create_main_html"
    /\ IF create_main_html(html_files, output_dir) = FileNotFoundError
       THEN /\ Throw(Exception(FileNotFoundError))
            /\ UNCHANGED cwd
       ELSE /\ cwd' = WriteFile(cwd, IndexName,
                                create_main_html(html_files, output_dir))
            /\ pc' = "move_index"
            /\ UNCHANGED << exc, result >>
    /\ UNCHANGED << i, html_files, tmp_dir, output_dir, rfi_stats, bl_lens,
                    dataset, ret >>

\* line 71, and the return of main()
MoveIndex ==
    /\ pc = "move_index"
    /\ Move(IndexName, "exit", Returned)
    /\ UNCHANGED << i, html_files, tmp_dir, rfi_stats, bl_lens, dataset, ret >>

\* the call at pc raises (a library or filesystem error) before it has any effect
Raise ==
    /\ pc \in TrySites \cup BareSites
    /\ exc = NoExc
    /\ Throw(Exception("Error"))
    /\ UNCHANGED << i, html_files, tmp_dir, output_dir, cwd, rfi_stats,
                    bl_lens, dataset, ret >>

Next ==
    \/ MkDir
    \/ ForLoop
    \/ AppendFilename
    \/ Construct
    \/ CollectPlots
    \/ CreateLayout
    \/ Rename
    \/ MoveReport
    \/ Except
    \/ WriteMetadata
    \/ MoveMetadata
    \/ CreateMainHtml
    \/ MoveIndex
    \/ Raise

Spec == Init /\ [][Next]_vars

(***************************************************************************)
(* Properties of main().                                                   *)
(***************************************************************************)
Artifacts == { FileName("freq_time"), FileName("freq_baseline"), MetadataName, IndexName }

\* the files inside the final-named directory
OutFiles == IF output_dir.kind = "dir" THEN DOMAIN output_dir.files ELSE {}

Written == (DOMAIN cwd) \cup OutFiles

\* the failure happened after the first report's file was written and before
\* the second report was complete
FailedAfterFirstHtml ==
    /\ exc # NoExc
    /\ \/ exc.i = 0 /\ exc.at \in { "rename", "move_report" }
       \/ exc.i = 1 /\ exc.at \in TrySites

FlagAt(ds, t, f, b) ==
    IF ds.flags_keep = "all" THEN (IF ds.cube[t][f][b] # {} THEN 1 ELSE 0)
    ELSE (IF ds.flags_keep \in ds.cube[t][f][b] THEN 1 ELSE 0)

\* number of flagged products of S at dump t, channel f
RECURSIVE SumProducts(_, _, _, _)
SumProducts(ds, t, f, S) ==
    IF S = {} THEN 0
    ELSE LET b == CHOOSE y \in S : TRUE
         IN FlagAt(ds, t, f, b) + SumProducts(ds, t, f, S \ {b})

\* number of flagged dumps of S at channel f, product b
RECURSIVE SumDumps(_, _, _, _)
SumDumps(ds, f, b, S) ==
    IF S = {} THEN 0
    ELSE LET t == CHOOSE y \in S : TRUE
         IN FlagAt(ds, t, f, b) + SumDumps(ds, f, b, S \ {t})

NChans(ds) == IF Len(ds.cube) = 0 THEN 0 ELSE Len(ds.cube[1])

\* np.mean(dataset.flags[:, :, :], axis=2): a mean is << sum, count >>
MeanOverBaselines(ds) ==
    LET ts == SortedSeq(ds.time_keep)
    IN [ r \in 1..Len(ts) |->
           [ f \in 1..NChans(ds) |->
               << SumProducts(ds, ts[r], f, ds.corrprod_keep),
                  Cardinality(ds.corrprod_keep) >> ] ]

\* np.mean(dataset.flags[:, :, :], axis=0)
MeanOverTime(ds) ==
    LET bs == SortedSeq(ds.corrprod_keep)
    IN [ f \in 1..NChans(ds) |->
           [ c \in 1..Len(bs) |->
               << SumDumps(ds, f, bs[c], ds.time_keep),
                  Cardinality(ds.time_keep) >> ] ]

\* two_d_array[:, bl_idx]
TakeColumns(two_d_array, bl_idx) ==
    [ f \in DOMAIN two_d_array |-> [ c \in 1..Len(bl_idx) |-> two_d_array[f][bl_idx[c]] ] ]

\* two_d_array.T of an array with ncols columns
Transpose(two_d_array, ncols) ==
    [ c \in 1..ncols |-> [ f \in DOMAIN two_d_array |-> two_d_array[f][c] ] ]

\* the image of one PlotFreqBaseline.make_plots iteration, lines 223-226
FreqBaselineImage(ds, bl_idx) ==
    Transpose(TakeColumns(MeanOverTime(ds), bl_idx), Len(bl_idx))

\* products a drawn dataset is made of
ProductPool ==
    { << lbl("0", "h"), lbl("1", "h") >>,
      << lbl("0", "h"), lbl("2", "h") >>,
      << lbl("1", "h"), lbl("2", "h") >>,
      << lbl("0", "v"), lbl("1", "v") >> }

PoolKeys == { StripLast(prod[1]) \o StripLast(prod[2]) : prod \in ProductPool }

\* one-row tables: a column per key that is present, its length as value
DrawnTables == UNION { [ K -> 1..MaxLen ] : K \in SUBSET PoolKeys }

\* a cube whose odd-numbered products are flagged by cam in every dump
StripedCube(nd, nc, np) ==
    [ t \in 1..nd |-> [ f \in 1..nc |->
        [ b \in 1..np |-> IF b % 2 = 1 THEN {"cam"} ELSE {} ] ] ]

InitBl ==
    /\ pc = "construct"
    /\ \E cp \in SeqsUpTo(ProductPool, MaxBl) :
         /\ Len(cp) >= 1
         /\ dataset = Open(cp, << "track" >>, StripedCube(1, 1, Len(cp)), TRUE)
    /\ bl_lens \in DrawnTables
    /\ ret = [ p |-> 1, k |-> 1, bl_idx |-> << >>, ordered_bl |-> << >>,
               image |-> << >>, error |-> None ]
    /\ rfi_stats = None
    /\ i = 0
    /\ html_files = << >>
    /\ tmp_dir = Absent
    /\ output_dir = Absent
    /\ cwd = EmptyFiles
    /\ exc = NoExc
    /\ result = Running

\* PlotFreqBaseline.__init__, lines 159-165
BlConstruct ==
    /\ pc = "construct"
    /\ IF get_bl_idx(dataset, bl_lens) = KeyError
       THEN /\ pc' = "raised"
            /\ ret' = [ ret EXCEPT !.error = KeyError ]
            /\ UNCHANGED rfi_stats
       ELSE /\ pc' = "make_plots"
            /\ rfi_stats' = [ class |-> "PlotFreqBaseline",
                              ordered_bl |-> get_bl_idx(dataset, bl_lens)[2] ]
            /\ UNCHANGED ret
    /\ UNCHANGED << i, html_files, tmp_dir, output_dir, cwd, exc, result,
                    bl_lens, dataset >>

\* one iteration of the loop of PlotFreqBaseline.make_plots, lines 217-228,
\* for polarization pols[ret.p] and flag category flags[ret.k]
BlMakePlots ==
    /\ pc = "make_plots"
    /\ dataset' = SelectFor(dataset, flags[ret.k], pols[ret.p])
    /\ IF get_bl_idx(dataset', bl_lens) = KeyError
       THEN /\ pc' = "raised"
            /\ ret' = [ ret EXCEPT !.error = KeyError ]
       ELSE LET bl == get_bl_idx(dataset', bl_lens)
                last == ret.k = Len(flags)
            IN /\ ret' = [ ret EXCEPT
                             !.bl_idx = bl[1],
                             !.ordered_bl = bl[2],
                             !.image = FreqBaselineImage(dataset', bl[1]),
                             !.k = IF last THEN 1 ELSE @ + 1,
                             !.p = IF last THEN @ + 1 ELSE @ ]
               /\ pc' = IF last /\ ret.p = Len(pols) THEN "done" ELSE "make_plots"
    /\ UNCHANGED << i, html_files, tmp_dir, output_dir, cwd, rfi_stats, exc,
                    result, bl_lens >>

NextBl ==
    \/ BlConstruct
    \/ BlMakePlots

SpecBl == InitBl /\ [][NextBl]_vars

\* the length of every selected product, in dataset order
SelectedLengths == [ c \in 1..Len(get_corrprods(dataset)) |-> bl_lens[get_corrprods(dataset)[c]] ]

\* C6: with every key in the table, bl_idx holds every original baseline index
\* exactly once, ordered_bl[k] is the length of baseline bl_idx[k] and does not
\* decrease, and column k of the reindexed image is original column bl_idx[k]
C6_BaselineOrderIsSortingPermutation ==
    (pc \in { "make_plots", "done" } /\ ret.image # << >>) =>
        LET n == Cardinality(dataset.corrprod_keep)
        IN /\ Len(ret.bl_idx) = n
           /\ Range(ret.bl_idx) = 1..n
           /\ Len(ret.ordered_bl) = n
           /\ \A c \in 1..n : ret.ordered_bl[c] = SelectedLengths[ret.bl_idx[c]]
           /\ \A c \in 1..(n - 1) : ret.ordered_bl[c] <= ret.ordered_bl[c + 1]
           /\ Len(ret.image) = n
           /\ \A c \in 1..n : \A f \in 1..NChans(dataset) :
                 ret.image[c][f] = MeanOverTime(dataset)[f][ret.bl_idx[c]]

C6_Witness ==
    /\ pc = "make_plots"
    /\ ret.bl_idx = << 3, 1, 2 >>
    /\ ret.ordered_bl = << 1, 2, 2 >>
    /\ ret.image[2] # ret.image[3]

(***************************************************************************)
(* The two collectors on one dataset handle, in any order: the make_plots  *)
(* loops of PlotFreqTimeStats and PlotFreqBaseline, one iteration a step.  *)
(***************************************************************************)
\* plots_source[key] = value
DictSet(d, key, value) ==
    [ x \in (DOMAIN d) \cup {key} |-> IF x = key THEN value ELSE d[x] ]

SelProducts ==
    << << lbl("0", "h"), lbl("1", "h") >>,
       << lbl("0", "v"), lbl("1", "v") >>,
       << lbl("0", "h"), lbl("0", "h") >>,
       << lbl("0", "h"), lbl("2", "h") >> >>

SelDumps == << "track", "slew" >>

SelTable ==
    [ key \in { StripLast(SelProducts[c][1]) \o StripLast(SelProducts[c][2]) :
                c \in 1..Len(SelProducts) } |-> IF key[4] = "2" THEN 1 ELSE 2 ]

Cells == (1..Len(SelDumps)) \X {1} \X (1..Len(SelProducts))

\* flag cubes with at most MaxFlagged samples flagged, by cam or by cal_rfi
DrawnCubes ==
    { [ t \in 1..Len(SelDumps) |-> [ f \in {1} |-> [ b \in 1..Len(SelProducts) |->
          IF << t, f, b >> \in DOMAIN g THEN { g[<< t, f, b >>] } ELSE {} ] ] ] :
      g \in UNION { [ K -> { "cam", "cal_rfi" } ] :
                    K \in { K \in SUBSET Cells : Cardinality(K) <= MaxFlagged } } }

\* orders in which the two reports are collected
Orders == { << "freq_time" >>, << "freq_time", "freq_baseline" >>,
            << "freq_baseline", "freq_time" >> }

InitSel ==
    /\ pc = "collect_plots"
    /\ \E cube \in DrawnCubes, reset_flags \in BOOLEAN :
         dataset = Open(SelProducts, SelDumps, cube, reset_flags)
    /\ bl_lens = SelTable
    /\ \E order \in Orders :
         ret = [ order |-> order, r |-> 1, p |-> 1, k |-> 1, images |-> << >> ]
    /\ rfi_stats = None
    /\ i = 0
    /\ html_files = << >>
    /\ tmp_dir = Absent
    /\ output_dir = Absent
    /\ cwd = EmptyFiles
    /\ exc = NoExc
    /\ result = Running

\* the loops of collect_plots / make_plots / main move on by one iteration
Advance(image) ==
    LET lastk == ret.k = Len(flags)
        lastp == lastk /\ ret.p = Len(pols)
    IN /\ ret' = [ ret EXCEPT
                     !.images = DictSet(@, << ret.order[ret.r], pols[ret.p], flags[ret.k] >>,
                                        image),
                     !.k = IF lastk THEN 1 ELSE @ + 1,
                     !.p = IF lastp THEN 1 ELSE IF lastk THEN @ + 1 ELSE @,
                     !.r = IF lastp THEN @ + 1 ELSE @ ]
       /\ pc' = IF lastp /\ ret.r = Len(ret.order) THEN "done" ELSE "collect_plots"

\* one iteration of PlotFreqTimeStats.make_plots, lines 87-96
FtMakePlots ==
    /\ pc = "collect_plots"
    /\ ret.order[ret.r] = "freq_time"
    /\ dataset' = SelectFor(dataset, flags[ret.k], pols[ret.p])
    /\ Advance(MeanOverBaselines(dataset'))
    /\ UNCHANGED << i, html_files, tmp_dir, output_dir, cwd, rfi_stats, exc,
                    result, bl_lens >>

\* one iteration of PlotFreqBaseline.make_plots, lines 217-228
FbMakePlots ==
    /\ pc = "collect_plots"
    /\ ret.order[ret.r] = "freq_baseline"
    /\ dataset' = SelectFor(dataset, flags[ret.k], pols[ret.p])
    /\ IF get_bl_idx(dataset', bl_lens) = KeyError
       THEN pc' = "raised" /\ UNCHANGED ret
       ELSE Advance(FreqBaselineImage(dataset', get_bl_idx(dataset', bl_lens)[1]))
    /\ UNCHANGED << i, html_files, tmp_dir, output_dir, cwd, rfi_stats, exc,
                    result, bl_lens >>

NextSel ==
    \/ FtMakePlots
    \/ FbMakePlots

SpecSel == InitSel /\ [][NextSel]_vars

\* the dataset after the first n iterations of PlotFreqTimeStats.collect_plots
RECURSIVE FtRun(_, _)
FtRun(ds, n) ==
    IF n = 0 THEN ds
    ELSE SelectFor(FtRun(ds, n - 1),
                   flags[((n - 1) % Len(flags)) + 1],
                   pols[((n - 1) \div Len(flags)) + 1])

\* the image of (pols[p], flags[k]) when the frequency-time report is collected
\* alone on the freshly opened dataset
AloneImage(p, k) ==
    MeanOverBaselines(
        FtRun(Open(dataset.corr_products, dataset.dumps, dataset.cube, dataset.reset_flags),
              (p - 1) * Len(flags) + k))

RECURSIVE Str(_)
Str(n) == IF n < 10 THEN << n >> ELSE Str(n \div 10) \o << n % 10 >>

IndexError == "IndexError"

\* make_ticks: the dictionary, or the IndexError of indices[i]
make_ticks(targets, nscans) ==
    LET step == (nscans \div Len(targets)) + 1
        \* np.arange(0, nscans)[::step] + 10
        indices == [ j \in 1..((nscans + step - 1) \div step) |-> (j - 1) * step + 10 ]
    IN IF Len(targets) > Len(indices)
       THEN [ error |-> IndexError, y_ticks_dic |-> << >> ]
       ELSE [ error |-> None,
              y_ticks_dic |->
                  [ key \in { Str(indices[j]) : j \in 1..Len(targets) } |->
                      targets[CHOOSE j \in 1..Len(targets) : Str(indices[j]) = key] ] ]

\* datasets of one to MaxDumps dumps in one to MaxTargets scans, every scan
\* holding at least one dump
InitTicks ==
    /\ pc = "make_ticks"
    /\ \E targets \in SeqsUpTo({ "A", "B" }, MaxTargets), nscans \in 1..MaxDumps :
         /\ 1 <= Len(targets)
         /\ Len(targets) <= nscans
         /\ dataset = [ targets |-> targets, nscans |-> nscans ]
    /\ ret = [ error |-> None, y_ticks_dic |-> << >> ]
    /\ bl_lens = << >>
    /\ rfi_stats = None
    /\ i = 0
    /\ html_files = << >>
    /\ tmp_dir = Absent
    /\ output_dir = Absent
    /\ cwd = EmptyFiles
    /\ exc = NoExc
    /\ result = Running

\* lines 70-80
MakeTicks ==
    /\ pc = "make_ticks"
    /\ ret' = make_ticks(dataset.targets, dataset.nscans)
    /\ pc' = "done"
    /\ UNCHANGED << i, html_files, tmp_dir, output_dir, cwd, rfi_stats, exc,
                    result, bl_lens, dataset >>

NextTicks == MakeTicks

SpecTicks == InitTicks /\ [][NextTicks]_vars

\* C10: make_ticks returns without error, with one tick per scan-target name,
\* the i-th name at position i*step + 10 where step = nscans div T + 1
C10_TickForEveryTarget ==
    pc = "done" =>
        LET T == Len(dataset.targets)
            step == (dataset.nscans \div T) + 1
        IN /\ ret.error = None
           /\ DOMAIN ret.y_ticks_dic = { Str(j * step + 10) : j \in 0..(T - 1) }
           /\ \A j \in 0..(T - 1) :
                 ret.y_ticks_dic[Str(j * step + 10)] = dataset.targets[j + 1]

=============================================================================
